---- MODULE Spec2Model ----
(***************************************************************************)
(* gomason: the release pipeline (checkout, test, cross-compile, sign).    *)
(*                                                                         *)
(* Three entry points are modelled, each as a step machine over the same   *)
(* variables:                                                              *)
(*   SpecShebang : mason.WholeShebang with the legacy mason.Build          *)
(*   SpecSignCmd : the sign command of cmd/sign.go with gomason.Build      *)
(*   SpecSigning : mason.SignBinary followed by mason.VerifyBinary         *)
(* External tools (go, govendor, gox, gpg, the file system) are the        *)
(* environment: each call has a nondeterministic outcome.                  *)
(***************************************************************************)
EXTENDS Integers, Sequences, FiniteSets, TLC

VARIABLES
    pc,             \* position of the running function
    fs,             \* the paths that exist on disk
    procWd,         \* the working directory of the process (os.Chdir / os.Getwd)
    environ,        \* the ambient process environment (os.Environ)
    trace,          \* every fallible operation performed so far, in order
    err,            \* the error value of the running entry point ("" is nil)
    deferred,       \* paths scheduled by `defer os.RemoveAll`
    descriptor,     \* the descriptor stored in metadata.json (on disk)
    gpg,            \* the signer's world: installed?, keys per trust store, signatures made
    meta,           \* the descriptor as loaded by the entry point (ReadMetadata's result)
    args,           \* the entry point that runs (entry) and its arguments
    cwd,            \* local `cwd` of WholeShebang / signCmd.Run
    actualWorkDir,  \* local `actualWorkDir` (WholeShebang) / `workDir` (signCmd)
    gopath,         \* local `gopath`
    buildmetadata,  \* the result record WholeShebang returns
    buildRet,       \* the error Build returned ("" is nil, "unset" before the call)
    idx,            \* loop index of the running `for ... range`
    config,         \* what GetUserConfig yields
    ok              \* result `ok` of VerifyBinary

vars == <<pc, fs, procWd, environ, descriptor, gpg, trace, err, deferred, meta, args, cwd,
          actualWorkDir, gopath, buildmetadata, buildRet, idx, config, ok>>

(***************************************************************************)
(* Bounds of the model.                                                    *)
(***************************************************************************)
MaxTargets == 2
MaxExtras == 2

(***************************************************************************)
(* The world outside the program.                                          *)
(***************************************************************************)
CallerDir == "/proj"
TempDirName == "/tmp/gomason1"
PersistDir == "/persist"
Branch == "master"
Environ == {"PATH=/usr/bin", "HOME=/home/op"}

NoErr == ""

\* errors.Wrap(err, msg): nil stays nil, otherwise the message is prefixed.
Wrap(e, msg) == IF e = NoErr THEN NoErr ELSE msg \o ": " \o e

HasPrefix(s, p) == Len(s) >= Len(p) /\ SubSeq(s, 1, Len(p)) = p

\* os.RemoveAll(path): removes path and everything below it; "" removes nothing.
RemoveAll(files, path) ==
    IF path = "" THEN files
    ELSE {q \in files : ~(q = path \/ HasPrefix(q, path \o "/"))}

RECURSIVE RunDeferred(_, _)
\* the deferred calls of the returning function, last registered first
RunDeferred(files, ds) ==
    IF ds = <<>> THEN files
    ELSE RunDeferred(RemoveAll(files, ds[Len(ds)]), SubSeq(ds, 1, Len(ds) - 1))

RECURSIVE SplitFrom(_, _, _, _)
SplitFrom(s, sep, i, cur) ==
    IF i > Len(s) THEN <<cur>>
    ELSE IF SubSeq(s, i, i) = sep
         THEN <<cur>> \o SplitFrom(s, sep, i + 1, "")
         ELSE SplitFrom(s, sep, i + 1, cur \o SubSeq(s, i, i))

\* strings.Split(s, sep) for a one-character separator
Split(s, sep) == SplitFrom(s, sep, 1, "")

\* fmt.Sprintf("%s/src/%s", gopath, gomodule)
SrcDir(gp, gomodule) == gp \o "/src/" \o gomodule

\* parts[len(parts)-1] of strings.Split(package, "/")
BinaryPrefix(package) == LET parts == Split(package, "/") IN parts[Len(parts)]

\* fmt.Sprintf("%s/%s_%s_%s", dir, binaryPrefix, osname, archname)
BinaryPath(dir, package, arch) ==
    LET archparts == Split(arch, "/")
    IN  dir \o "/" \o BinaryPrefix(package) \o "_" \o archparts[1] \o "_" \o archparts[2]

\* GitSSHUrlFromPackage(package)
GitSSHUrlFromPackage(package) == "git@" \o package \o ".git"

Event(op, by, good) == [op |-> op, by |-> by, ok |-> good]

EmptyMetadata == [WorkDir |-> "", Path |-> "", Package |-> "", Version |-> "", GitPath |-> ""]

RECURSIVE SeqsUpTo(_, _)
SeqsUpTo(S, n) ==
    IF n = 0 THEN {<<>>}
    ELSE LET shorter == SeqsUpTo(S, n - 1)
         IN  shorter \cup {Append(s, x) : s \in shorter, x \in S}


(***************************************************************************)
(* Descriptors and arguments the entry points are run on.                  *)
(***************************************************************************)
\* "plan9" has no "/": strings.Split gives a single part
TargetNames == {"linux/amd64", "darwin/amd64", "plan9"}

\* the legacy mason.Metadata: BuildTargets is a list of "os/arch" strings
LegacyDescriptors ==
    {[Package |-> "acme/widget", Version |-> "1.2.3", BuildTargets |-> ts] :
        ts \in SeqsUpTo(TargetNames, MaxTargets)}

ShebangArgs ==
    [entry : {"WholeShebang"},
     workDir : {"", PersistDir}, build : BOOLEAN, sign : BOOLEAN, publish : BOOLEAN]

\* the zero value of the legacy mason.Metadata
ZeroLegacyMetadata == [Package |-> "", Version |-> "", BuildTargets |-> <<>>]

\* the trust stores of the signer: its default one and the test keyring
DefaultStore == "default"
TestKeyring == "/test/pubring.gpg"
TestTrustDb == "/test/trustdb.gpg"
Stores == {DefaultStore, TestKeyring}

NoGpg == [installed |-> FALSE, keys |-> [st \in Stores |-> {}], sigs |-> {}]

NoConfig == [User |-> [Email |-> ""], Signing |-> [Program |-> ""]]

\* function return: the deferred calls run, then the caller has (result, e)
Return(e) ==
    /\ pc' = "done"
    /\ err' = e
    /\ fs' = RunDeferred(fs, deferred)
    /\ deferred' = <<>>

\* a run-time panic unwinds the function: the deferred calls still run
Panic(e) ==
    /\ pc' = "panicked"
    /\ err' = e
    /\ fs' = RunDeferred(fs, deferred)
    /\ deferred' = <<>>

(***************************************************************************)
(* Checkout and CreateGoPath are called by the sources but defined in      *)
(* files that are not part of them.                                        *)
(***************************************************************************)
\* CreateGoPath(workDir): <workDir>/go with its src, bin and pkg directories
GoPathOf(wd) == wd \o "/go"
CreateGoPathFiles(wd) ==
    {GoPathOf(wd), GoPathOf(wd) \o "/src", GoPathOf(wd) \o "/bin", GoPathOf(wd) \o "/pkg"}

\* Checkout(gopath, package, branch): the package's tree under <gopath>/src
CheckoutFiles(gp, package) ==
    {SrcDir(gp, package), SrcDir(gp, package) \o "/metadata.json"}

(***************************************************************************)
(* mason.WholeShebang                                                      *)
(***************************************************************************)
InitShebang ==
    /\ pc = "ws_getwd"
    /\ args \in ShebangArgs
    /\ descriptor \in LegacyDescriptors
    /\ meta = ZeroLegacyMetadata
    /\ gpg = NoGpg
    /\ fs = {CallerDir} \cup (IF args.workDir = "" THEN {} ELSE {args.workDir})
    /\ procWd = CallerDir
    /\ environ = Environ
    /\ trace = <<>>
    /\ err = NoErr
    /\ deferred = <<>>
    /\ cwd = ""
    /\ actualWorkDir = ""
    /\ gopath = ""
    /\ buildmetadata = EmptyMetadata
    /\ buildRet = "unset"
    /\ idx = 0
    /\ config = NoConfig
    /\ ok = FALSE

\* cwd, err := os.Getwd()
WS_Getwd ==
    /\ pc = "ws_getwd"
    /\ \E good \in BOOLEAN :
        /\ trace' = Append(trace, Event("Getwd", "WholeShebang", good))
        /\ IF good
           THEN /\ cwd' = procWd
                /\ pc' = "ws_workspace"
                /\ UNCHANGED <<err, fs, deferred>>
           ELSE /\ Return(Wrap("getwd failed", "Failed to get current working directory."))
                /\ UNCHANGED cwd
    /\ UNCHANGED <<procWd, environ, descriptor, gpg, meta, args, actualWorkDir, gopath, buildmetadata,
                   buildRet, idx, config, ok>>

\* the removal of the temporary directory never scheduled
DeferRemoveAllForgotten(ds, dir) == ds

\* defer os.RemoveAll(actualWorkDir)
DeferRemoveAll(ds, dir) == Append(ds, dir)

\* if workDir == "" { ioutil.TempDir; defer os.RemoveAll } else { actualWorkDir = workDir }
WS_Workspace ==
    /\ pc = "ws_workspace"
    /\ IF args.workDir = ""
       THEN \E good \in BOOLEAN :
            /\ trace' = Append(trace, Event("TempDir", "WholeShebang", good))
            /\ actualWorkDir' = IF good THEN TempDirName ELSE ""
            /\ fs' = IF good THEN fs \cup {TempDirName} ELSE fs
            /\ err' = IF good THEN NoErr
                      ELSE Wrap("mkdir failed", "Failed to create temp dir")
            /\ deferred' = DeferRemoveAll(deferred, actualWorkDir')
       ELSE /\ actualWorkDir' = args.workDir
            /\ UNCHANGED <<trace, fs, err, deferred>>
    /\ buildmetadata' = [buildmetadata EXCEPT !.WorkDir = actualWorkDir']
    /\ pc' = "ws_creategopath"
    /\ UNCHANGED <<procWd, environ, descriptor, gpg, meta, args, cwd, gopath, buildRet, idx, config, ok>>

\* gopath, err := CreateGoPath(actualWorkDir)
WS_CreateGoPath ==
    /\ pc = "ws_creategopath"
    /\ \E good \in BOOLEAN :
        /\ trace' = Append(trace, Event("CreateGoPath", "WholeShebang", good))
        /\ gopath' = GoPathOf(actualWorkDir)
        /\ IF good
           THEN /\ fs' = fs \cup CreateGoPathFiles(actualWorkDir)
                /\ err' = NoErr
                /\ buildmetadata' = [buildmetadata EXCEPT !.Path = gopath']
                /\ pc' = "ws_govendorinstall"
                /\ UNCHANGED deferred
           ELSE /\ Return("mkdir failed")
                /\ UNCHANGED buildmetadata
    /\ UNCHANGED <<procWd, environ, descriptor, gpg, meta, args, cwd, actualWorkDir, buildRet, idx,
                   config, ok>>

\* err = GovendorInstall(gopath, verbose)
WS_GovendorInstall ==
    /\ pc = "ws_govendorinstall"
    /\ \E good \in BOOLEAN :
        /\ trace' = Append(trace, Event("GovendorInstall", "WholeShebang", good))
        /\ IF good
           THEN /\ fs' = fs \cup {gopath \o "/bin/govendor"}
                /\ err' = NoErr
                /\ pc' = "ws_readmetadata"
                /\ UNCHANGED deferred
           ELSE Return("exit status 1")
    /\ UNCHANGED <<procWd, environ, descriptor, gpg, meta, args, cwd, actualWorkDir, gopath,
                   buildmetadata, buildRet, idx, config, ok>>

\* the result record rebuilt from the descriptor alone, dropping WorkDir and Path
WithDescriptorOnly(bm, md) ==
    [WorkDir |-> "", Path |-> "", Package |-> md.Package, Version |-> md.Version,
     GitPath |-> GitSSHUrlFromPackage(md.Package)]

\* the fields WholeShebang copies from the descriptor into its result
WithDescriptor(bm, md) ==
    [bm EXCEPT !.Package = md.Package,
               !.Version = md.Version,
               !.GitPath = GitSSHUrlFromPackage(md.Package)]

\* commandmetadata, err := ReadMetadata("metadata.json")
WS_ReadMetadata ==
    /\ pc = "ws_readmetadata"
    /\ \E good \in BOOLEAN :
        /\ trace' = Append(trace, Event("ReadMetadata", "WholeShebang", good))
        /\ IF good
           THEN /\ meta' = descriptor
                /\ buildmetadata' = WithDescriptor(buildmetadata, meta')
                /\ err' = NoErr
                /\ pc' = "ws_checkout"
                /\ UNCHANGED <<fs, deferred>>
           ELSE /\ Return(Wrap("unexpected end of JSON input",
                               "couldn't read package information from metadata.json."))
                /\ UNCHANGED <<buildmetadata, meta>>
    /\ UNCHANGED <<procWd, environ, descriptor, gpg, args, cwd, actualWorkDir, gopath, buildRet,
                   idx, config, ok>>

\* err = Checkout(gopath, commandmetadata.Package, branch, verbose)
WS_Checkout ==
    /\ pc = "ws_checkout"
    /\ \E good \in BOOLEAN :
        /\ trace' = Append(trace, Event("Checkout", "WholeShebang", good))
        /\ IF good
           THEN /\ fs' = fs \cup CheckoutFiles(gopath, meta.Package)
                /\ err' = NoErr
                /\ pc' = "ws_govendorsync"
                /\ UNCHANGED deferred
           ELSE Return(Wrap("exit status 128",
                            "failed to checkout package " \o meta.Package
                                \o " at branch " \o Branch \o ": exit status 128"))
    /\ UNCHANGED <<procWd, environ, descriptor, gpg, meta, args, cwd, actualWorkDir, gopath,
                   buildmetadata, buildRet, idx, config, ok>>


\* err = GovendorSync(gopath, commandmetadata.Package, verbose)
WS_GovendorSync ==
    /\ pc = "ws_govendorsync"
    /\ LET wd == SrcDir(gopath, meta.Package)
           chdirOk == wd \in fs
       IN  \E good \in BOOLEAN :
            LET success == chdirOk /\ good
            IN  /\ trace' = Append(trace, Event("GovendorSync", "WholeShebang", success))
                /\ procWd' = IF chdirOk THEN wd ELSE procWd
                /\ IF success
                   THEN /\ err' = NoErr
                        /\ pc' = "ws_gotest"
                        /\ UNCHANGED <<fs, deferred>>
                   ELSE Return(Wrap("exit status 1", "error running govendor sync"))
    /\ UNCHANGED <<environ, descriptor, gpg, meta, args, cwd, actualWorkDir, gopath, buildmetadata,
                   buildRet, idx, config, ok>>

\* err = GoTest(gopath, commandmetadata.Package, verbose)
WS_GoTest ==
    /\ pc = "ws_gotest"
    /\ LET wd == SrcDir(gopath, meta.Package)
           chdirOk == wd \in fs
       IN  \E good \in BOOLEAN :
            LET success == chdirOk /\ good
            IN  /\ trace' = Append(trace, Event("GoTest", "WholeShebang", success))
                /\ procWd' = IF chdirOk THEN wd ELSE procWd
                /\ IF success
                   THEN /\ err' = NoErr
                        /\ pc' = "ws_build"
                        /\ UNCHANGED <<fs, deferred>>
                   ELSE Return(Wrap("exit status 1", "error running go test"))
    /\ UNCHANGED <<environ, descriptor, gpg, meta, args, cwd, actualWorkDir, gopath, buildmetadata,
                   buildRet, idx, config, ok>>

(***************************************************************************)
(* The legacy mason.Build(gopath, gomodule, branch, verbose), as called by *)
(* WholeShebang.  BuildReturns is its return statement: the caller         *)
(* continues at `after`.                                                   *)
(***************************************************************************)
BuildReturns(e, after) ==
    /\ buildRet' = e
    /\ pc' = after
    /\ idx' = 1

\* what WholeShebang does with the error Build returned
AfterBuild(e) ==
    /\ BuildReturns(e, "ws_collect")
    /\ UNCHANGED <<err, deferred>>

\* the build stage entered whatever the flag says
BuildUnconditional(a) == TRUE

\* if build {
BuildRequested(a) == a.build

\* if build { Build(...) ; Build begins: install gox if <gopath>/go/bin/gox is absent
WS_Build ==
    /\ pc = "ws_build"
    /\ IF ~BuildRequested(args)
       THEN /\ pc' = "ws_sign"
            /\ UNCHANGED <<fs, trace, err, deferred, buildRet, idx>>
       ELSE IF (gopath \o "/go/bin/gox") \in fs
       THEN /\ pc' = "lb_checkout"
            /\ UNCHANGED <<fs, trace, err, deferred, buildRet, idx>>
       ELSE \E good \in BOOLEAN :
            /\ trace' = Append(trace, Event("GoxInstall", "Build", good))
            /\ IF good
               THEN /\ fs' = fs \cup {gopath \o "/bin/gox"}
                    /\ pc' = "lb_checkout"
                    /\ UNCHANGED <<err, deferred, buildRet, idx>>
               ELSE /\ AfterBuild(Wrap("exit status 1", "Failed to install gox"))
                    /\ UNCHANGED fs
    /\ UNCHANGED <<procWd, environ, descriptor, gpg, meta, args, cwd, actualWorkDir, gopath,
                   buildmetadata, config, ok>>

\* the file whose absence makes Build check the package out
CheckoutMarker(gp, gomodule) == gp \o "/" \o gomodule \o "/metadata.json"

\* if <gopath>/<gomodule>/metadata.json does not exist { Checkout }
LB_Checkout ==
    /\ pc = "lb_checkout"
    /\ IF CheckoutMarker(gopath, meta.Package) \in fs
       THEN /\ pc' = "lb_chdir"
            /\ UNCHANGED <<fs, trace, err, deferred, buildRet, idx>>
       ELSE \E good \in BOOLEAN :
            /\ trace' = Append(trace, Event("Checkout", "Build", good))
            /\ IF good
               THEN /\ fs' = fs \cup CheckoutFiles(gopath, meta.Package)
                    /\ pc' = "lb_chdir"
                    /\ UNCHANGED <<err, deferred, buildRet, idx>>
               ELSE /\ AfterBuild(Wrap("exit status 128",
                            "Failed to checkout module: " \o meta.Package
                                \o " branch: " \o Branch \o " "))
                    /\ UNCHANGED fs
    /\ UNCHANGED <<procWd, environ, descriptor, gpg, meta, args, cwd, actualWorkDir, gopath,
                   buildmetadata, config, ok>>

\* err = os.Chdir(wd); md, err := ReadMetadata(metadatapath)
LB_ReadMetadata ==
    /\ pc = "lb_chdir"
    /\ LET wd == SrcDir(gopath, meta.Package)
           chdirOk == wd \in fs
       IN  \E good \in BOOLEAN :
            /\ procWd' = IF chdirOk THEN wd ELSE procWd
            /\ trace' = Append(trace, Event("ReadMetadata", "Build", chdirOk /\ good))
            /\ IF ~chdirOk
               THEN AfterBuild("chdir " \o wd \o ": no such file or directory")
               ELSE IF good
               THEN /\ pc' = "lb_gox"
                    /\ UNCHANGED <<err, deferred, buildRet, idx>>
               ELSE AfterBuild(Wrap("unexpected end of JSON input",
                            "Failed to read metadata.json from checked out code"))
    /\ UNCHANGED <<fs, environ, descriptor, gpg, meta, args, cwd, actualWorkDir, gopath, buildmetadata,
                   config, ok>>

\* a target the compiler can name a binary for
WellFormed(arch) == Len(Split(arch, "/")) >= 2

RECURSIVE Join(_, _)
\* strings.Join(elems, sep)
Join(elems, sep) ==
    IF elems = <<>> THEN ""
    ELSE IF Len(elems) = 1 THEN elems[1]
    ELSE elems[1] \o sep \o Join(Tail(elems), sep)

\* the binaries gox may leave in dir for the targets it was given
GoxOutputs(dir, package, targets) ==
    SUBSET {BinaryPath(dir, package, targets[i]) :
                i \in {j \in 1..Len(targets) : WellFormed(targets[j])}}

\* one gox run for all the targets: gox -osarch="<targets joined by space>"
LB_Gox ==
    /\ pc = "lb_gox"
    /\ LET wd == SrcDir(gopath, meta.Package)
           md == descriptor    \* ReadMetadata(<wd>/metadata.json)
       IN  \E good \in BOOLEAN, built \in GoxOutputs(wd, meta.Package, md.BuildTargets) :
            /\ trace' = Append(trace,
                    [op |-> "gox", by |-> "Build", ok |-> good,
                     osarch |-> Join(md.BuildTargets, " "),
                     env |-> environ \cup {"GOPATH=" \o gopath}])
            /\ fs' = fs \cup built
            /\ AfterBuild(IF good THEN NoErr ELSE "exit status 1")
    /\ UNCHANGED <<procWd, environ, descriptor, gpg, meta, args, cwd, actualWorkDir, gopath,
                   buildmetadata, config, ok>>

\* the error of the existence check lost to the enclosing scope's nil err
MissingBinaryErrorShadowed(binary) == NoErr

\* err = errors.New(fmt.Sprintf("Gox failed to build binary: %s\n", binary))
MissingBinaryError(binary) == "Gox failed to build binary: " \o binary \o "\n"

\* the destination taken from the working directory of the moment
DestinationPathFromWd(callerDir, wdNow, package, arch) ==
    BinaryPath(wdNow, package, arch)

\* destinationPath := fmt.Sprintf("%s/%s", cwd, binaryName), cwd read by Getwd at the start
DestinationPath(callerDir, wdNow, package, arch) ==
    BinaryPath(callerDir, package, arch)

\* os.Rename(binary, destinationPath)
Rename(files, from, to) == (files \ {from}) \cup {to}

\* a collection loop that logs the failure and goes on to the next binary
CollectGoesOn(good) == FALSE

\* if err != nil { err = errors.Wrapf(...); return buildmetadata, err }
CollectStops(good) == ~good

\* for _, arch := range commandmetadata.BuildTargets { Stat; Rename }
WS_Collect ==
    /\ pc = "ws_collect"
    /\ IF idx > Len(meta.BuildTargets)
       THEN /\ pc' = "ws_sign"
            /\ UNCHANGED <<fs, trace, err, deferred, idx>>
       ELSE LET arch == meta.BuildTargets[idx]
                workdir == SrcDir(gopath, meta.Package)
            IN  IF ~WellFormed(arch)
                THEN /\ Panic("index out of range")
                     /\ UNCHANGED <<trace, idx>>
                ELSE LET binary == BinaryPath(workdir, meta.Package, arch)
                         destinationPath == DestinationPath(cwd, workdir, meta.Package, arch)
                         stat(good) == [op |-> "Stat", by |-> "WholeShebang", ok |-> good,
                                        index |-> idx, path |-> binary]
                         rename(good) == [op |-> "Rename", by |-> "WholeShebang", ok |-> good,
                                          index |-> idx, path |-> binary, to |-> destinationPath]
                     IN  IF binary \notin fs
                         THEN /\ trace' = Append(trace, stat(FALSE))
                              /\ Return(MissingBinaryError(binary))
                              /\ UNCHANGED idx
                         ELSE \E good \in BOOLEAN :
                              /\ trace' = trace \o <<stat(TRUE), rename(good)>>
                              /\ IF CollectStops(good)
                                 THEN /\ Return(Wrap("invalid cross-device link",
                                            "Failed to collect binary " \o binary \o "\n"))
                                      /\ UNCHANGED idx
                                 ELSE /\ fs' = IF good THEN Rename(fs, binary, destinationPath)
                                                ELSE fs
                                      /\ err' = NoErr
                                      /\ idx' = idx + 1
                                      /\ pc' = "ws_collect"
                                      /\ UNCHANGED deferred
    /\ UNCHANGED <<procWd, environ, descriptor, gpg, meta, args, cwd, actualWorkDir, gopath,
                   buildmetadata, buildRet, config, ok>>

\* if sign { log.Printf("Signing not yet implemented.  Stay tuned\n") }
WS_Sign ==
    /\ pc = "ws_sign"
    /\ trace' = IF args.sign
                THEN Append(trace, Event("log: Signing not yet implemented", "WholeShebang", TRUE))
                ELSE trace
    /\ pc' = "ws_publish"
    /\ UNCHANGED <<fs, procWd, environ, descriptor, gpg, err, deferred, meta, args, cwd, actualWorkDir,
                   gopath, buildmetadata, buildRet, idx, config, ok>>

\* if publish { log.Printf(...) } ; return buildmetadata, err
WS_Publish ==
    /\ pc = "ws_publish"
    /\ trace' = IF args.publish
                THEN Append(trace, Event("log: Publish not yet implemented", "WholeShebang", TRUE))
                ELSE trace
    /\ Return(err)
    /\ UNCHANGED <<procWd, environ, descriptor, gpg, meta, args, cwd, actualWorkDir, gopath,
                   buildmetadata, buildRet, idx, config, ok>>

NextShebang ==
    \/ WS_Getwd
    \/ WS_Workspace
    \/ WS_CreateGoPath
    \/ WS_GovendorInstall
    \/ WS_ReadMetadata
    \/ WS_Checkout
    \/ WS_GovendorSync
    \/ WS_GoTest
    \/ WS_Build
    \/ LB_Checkout
    \/ LB_ReadMetadata
    \/ LB_Gox
    \/ WS_Collect
    \/ WS_Sign
    \/ WS_Publish

SpecShebang == InitShebang /\ [][NextShebang]_vars


(***************************************************************************)
(* The sign command (cmd/sign.go, package gomason) and gomason.Build.      *)
(***************************************************************************)
\* os.FileMode of a rendered extra: 0755 and 0644
ExecMode == 493
PlainMode == 420

TargetSpecs ==
    {[Name |-> "linux/amd64", Cgo |-> FALSE, Flags |-> {}],
     [Name |-> "darwin/amd64", Cgo |-> TRUE, Flags |-> {[k |-> "CC", v |-> "clang"]}],
     [Name |-> "windows/386", Cgo |-> FALSE, Flags |-> {[k |-> "FOO", v |-> "1"]}]}

ExtraSpecs ==
    {[Template |-> "templates/install.tmpl", FileName |-> "install.sh", Executable |-> TRUE],
     [Template |-> "templates/README.tmpl", FileName |-> "README", Executable |-> FALSE]}

\* Options is map[string]interface{}: a set of entries, each with the dynamic type
\* of its value
NoOptions == {}

\* gomason.Metadata
Descriptors ==
    {[Package |-> "acme/widget", Version |-> "1.2.3",
      BuildInfo |-> [Targets |-> ts, Extras |-> xs],
      SignInfo |-> [Program |-> "gpg", Email |-> "dev@acme.io"],
      Options |-> NoOptions] :
        ts \in SeqsUpTo(TargetSpecs, MaxTargets), xs \in SeqsUpTo(ExtraSpecs, MaxExtras)}

\* the zero value of gomason.Metadata
ZeroMetadata ==
    [Package |-> "", Version |-> "",
     BuildInfo |-> [Targets |-> <<>>, Extras |-> <<>>],
     SignInfo |-> [Program |-> "", Email |-> ""],
     Options |-> NoOptions]

InitSignCmd ==
    /\ pc = "sc_getwd"
    /\ args = [entry |-> "signCmd"]
    /\ descriptor \in Descriptors
    /\ meta = ZeroMetadata
    /\ gpg = NoGpg
    /\ fs = {CallerDir}
    /\ procWd = CallerDir
    /\ environ = Environ
    /\ trace = <<>>
    /\ err = NoErr
    /\ deferred = <<>>
    /\ cwd = ""
    /\ actualWorkDir = ""
    /\ gopath = ""
    /\ buildmetadata = EmptyMetadata
    /\ buildRet = "unset"
    /\ idx = 0
    /\ config = NoConfig
    /\ ok = FALSE

\* log.Fatalf: the message is printed and os.Exit(1) ends the process at once;
\* deferred calls do not run
Fatalf(msg) ==
    /\ pc' = "exited"
    /\ err' = msg
    /\ UNCHANGED <<fs, deferred>>

\* cwd, err := os.Getwd()
SC_Getwd ==
    /\ pc = "sc_getwd"
    /\ \E good \in BOOLEAN :
        /\ trace' = Append(trace, Event("Getwd", "signCmd", good))
        /\ IF good
           THEN /\ cwd' = procWd
                /\ pc' = "sc_tempdir"
                /\ UNCHANGED <<err, fs, deferred>>
           ELSE /\ Fatalf("Failed to get current working directory: getwd failed")
                /\ UNCHANGED cwd
    /\ UNCHANGED <<procWd, environ, descriptor, gpg, meta, args, actualWorkDir, gopath,
                   buildmetadata, buildRet, idx, config, ok>>

\* workDir, err := ioutil.TempDir("", "gomason") ; defer os.RemoveAll(workDir)
SC_TempDir ==
    /\ pc = "sc_tempdir"
    /\ \E good \in BOOLEAN :
        /\ trace' = Append(trace, Event("TempDir", "signCmd", good))
        /\ IF good
           THEN /\ actualWorkDir' = TempDirName
                /\ fs' = fs \cup {TempDirName}
                /\ deferred' = DeferRemoveAll(deferred, TempDirName)
                /\ pc' = "sc_creategopath"
                /\ UNCHANGED err
           ELSE /\ Fatalf("Failed to create temp dir: mkdir failed")
                /\ UNCHANGED actualWorkDir
    /\ UNCHANGED <<procWd, environ, descriptor, gpg, meta, args, cwd, gopath,
                   buildmetadata, buildRet, idx, config, ok>>

\* gopath, err := gomason.CreateGoPath(workDir)
SC_CreateGoPath ==
    /\ pc = "sc_creategopath"
    /\ \E good \in BOOLEAN :
        /\ trace' = Append(trace, Event("CreateGoPath", "signCmd", good))
        /\ gopath' = GoPathOf(actualWorkDir)
        /\ IF good
           THEN /\ fs' = fs \cup CreateGoPathFiles(actualWorkDir)
                /\ pc' = "sc_readmetadata"
                /\ UNCHANGED <<err, deferred>>
           ELSE Fatalf("Failed to create ephemeral GOPATH: mkdir failed")
    /\ UNCHANGED <<procWd, environ, descriptor, gpg, meta, args, cwd, actualWorkDir,
                   buildmetadata, buildRet, idx, config, ok>>

\* meta, err := gomason.ReadMetadata("metadata.json") ; err is not looked at
SC_ReadMetadata ==
    /\ pc = "sc_readmetadata"
    /\ \E good \in BOOLEAN :
        /\ trace' = Append(trace, Event("ReadMetadata", "signCmd", good))
        /\ meta' = IF good THEN descriptor ELSE ZeroMetadata
    /\ pc' = "sc_checkout"
    /\ UNCHANGED <<fs, procWd, environ, descriptor, gpg, err, deferred, args, cwd,
                   actualWorkDir, gopath, buildmetadata, buildRet, idx, config, ok>>

\* err = gomason.Checkout(gopath, meta, branch, verbose)
SC_Checkout ==
    /\ pc = "sc_checkout"
    /\ \E good \in BOOLEAN :
        /\ trace' = Append(trace, Event("Checkout", "signCmd", good))
        /\ IF good
           THEN /\ fs' = fs \cup CheckoutFiles(gopath, meta.Package)
                /\ pc' = "sc_gotest"
                /\ UNCHANGED <<err, deferred>>
           ELSE Fatalf("failed to checkout package " \o meta.Package \o " at branch "
                            \o Branch \o ": exit status 128")
    /\ UNCHANGED <<procWd, environ, descriptor, gpg, meta, args, cwd, actualWorkDir,
                   gopath, buildmetadata, buildRet, idx, config, ok>>

\* err = gomason.GoTest(gopath, meta.Package, verbose)
SC_GoTest ==
    /\ pc = "sc_gotest"
    /\ LET wd == SrcDir(gopath, meta.Package)
           chdirOk == wd \in fs
       IN  \E good \in BOOLEAN :
            LET success == chdirOk /\ good
            IN  /\ trace' = Append(trace, Event("GoTest", "signCmd", success))
                /\ procWd' = IF chdirOk THEN wd ELSE procWd
                /\ IF success
                   THEN /\ pc' = "nb_goxinstall"
                        /\ UNCHANGED <<err, fs, deferred>>
                   ELSE Fatalf("error running go test: exit status 1")
    /\ UNCHANGED <<environ, descriptor, gpg, meta, args, cwd, actualWorkDir, gopath,
                   buildmetadata, buildRet, idx, config, ok>>

\* err = gomason.Build(...) ; if err != nil { log.Fatalf("build failed: %s", err) }
BuildFails(e) ==
    /\ buildRet' = e
    /\ Fatalf("build failed: " \o e)

\* Build begins: install gox if <gopath>/go/bin/gox is absent
NB_GoxInstall ==
    /\ pc = "nb_goxinstall"
    /\ IF (gopath \o "/go/bin/gox") \in fs
       THEN /\ pc' = "nb_checkout"
            /\ UNCHANGED <<fs, trace, err, deferred, buildRet>>
       ELSE \E good \in BOOLEAN :
            /\ trace' = Append(trace, Event("GoxInstall", "Build", good))
            /\ IF good
               THEN /\ fs' = fs \cup {gopath \o "/bin/gox"}
                    /\ pc' = "nb_checkout"
                    /\ UNCHANGED <<err, deferred, buildRet>>
               ELSE BuildFails(Wrap("exit status 1", "Failed to install gox"))
    /\ UNCHANGED <<procWd, environ, descriptor, gpg, meta, args, cwd, actualWorkDir,
                   gopath, buildmetadata, idx, config, ok>>

\* if <gopath>/<package>/metadata.json does not exist { Checkout }
NB_Checkout ==
    /\ pc = "nb_checkout"
    /\ IF CheckoutMarker(gopath, meta.Package) \in fs
       THEN /\ pc' = "nb_readmetadata"
            /\ UNCHANGED <<fs, trace, err, deferred, buildRet>>
       ELSE \E good \in BOOLEAN :
            /\ trace' = Append(trace, Event("Checkout", "Build", good))
            /\ IF good
               THEN /\ fs' = fs \cup CheckoutFiles(gopath, meta.Package)
                    /\ pc' = "nb_readmetadata"
                    /\ UNCHANGED <<err, deferred, buildRet>>
               ELSE BuildFails(Wrap("exit status 128",
                        "Failed to checkout module: " \o meta.Package
                            \o " branch: " \o Branch \o " "))
    /\ UNCHANGED <<procWd, environ, descriptor, gpg, meta, args, cwd, actualWorkDir,
                   gopath, buildmetadata, idx, config, ok>>

\* err = os.Chdir(wd) ; md, err := ReadMetadata(metadatapath)
NB_ReadMetadata ==
    /\ pc = "nb_readmetadata"
    /\ LET wd == SrcDir(gopath, meta.Package)
           chdirOk == wd \in fs
       IN  \E good \in BOOLEAN :
            /\ procWd' = IF chdirOk THEN wd ELSE procWd
            /\ trace' = Append(trace, Event("ReadMetadata", "Build", chdirOk /\ good))
            /\ IF ~chdirOk
               THEN /\ BuildFails("chdir " \o wd \o ": no such file or directory")
                    /\ UNCHANGED idx
               ELSE IF good
               THEN /\ pc' = "nb_target"
                    /\ idx' = 1
                    /\ UNCHANGED <<fs, err, deferred, buildRet>>
               ELSE /\ BuildFails(Wrap("unexpected end of JSON input",
                            "Failed to read metadata.json from checked out code"))
                    /\ UNCHANGED idx
    /\ UNCHANGED <<environ, descriptor, gpg, meta, args, cwd, actualWorkDir, gopath,
                   buildmetadata, config, ok>>

\* runenv kept across the iterations of the loop: the flags of every target pile up
RunEnvShared(env, gp, target) ==
    env \cup {"GOPATH=" \o gp}
        \cup {f.k \o "=" \o f.v :
                f \in UNION {descriptor.BuildInfo.Targets[i].Flags :
                                i \in 1..Len(descriptor.BuildInfo.Targets)}}

\* runenv: os.Environ() + GOPATH + the target's own flags
RunEnv(env, gp, target) ==
    env \cup {"GOPATH=" \o gp} \cup {f.k \o "=" \o f.v : f \in target.Flags}

\* args := gox + cgo + ` -osarch="` + target.Name + `"` + " ./..."
GoxArgs(gp, target) ==
    (gp \o "/bin/gox") \o (IF target.Cgo THEN " -cgo" ELSE "")
        \o " -osarch=\"" \o target.Name \o "\"" \o " ./..."

\* a loop that logs the build error and goes on with the next target
AfterTargetKeepGoing(i, good) == i + 1

\* where the loop over the targets goes after the invocation for target i
AfterTarget(i, good) == IF good THEN i + 1 ELSE 0

\* for _, target := range md.BuildInfo.Targets { one gox run ; return on error }
NB_Target ==
    /\ pc = "nb_target"
    /\ idx >= 1
    /\ LET md == descriptor    \* ReadMetadata(<wd>/metadata.json)
           wd == SrcDir(gopath, meta.Package)
       IN  IF idx > Len(md.BuildInfo.Targets)
           THEN /\ pc' = "nb_extras"
                /\ idx' = 1
                /\ UNCHANGED <<fs, trace, err, deferred, buildRet>>
           ELSE LET target == md.BuildInfo.Targets[idx]
                IN  \E good \in BOOLEAN, built \in GoxOutputs(wd, meta.Package, <<target.Name>>) :
                     /\ trace' = Append(trace,
                            [op |-> "gox", by |-> "Build", ok |-> good, index |-> idx,
                             osarch |-> target.Name, args |-> GoxArgs(gopath, target),
                             env |-> RunEnv(environ, gopath, target)])
                     /\ IF AfterTarget(idx, good) = 0
                        THEN /\ BuildFails("exit status 1")
                             /\ UNCHANGED idx
                        ELSE /\ idx' = AfterTarget(idx, good)
                             /\ fs' = fs \cup built
                             /\ pc' = "nb_target"
                             /\ UNCHANGED <<err, deferred, buildRet>>
    /\ UNCHANGED <<procWd, environ, descriptor, gpg, meta, args, cwd, actualWorkDir,
                   gopath, buildmetadata, config, ok>>

\* every rendered extra written with the plain mode
ExtraModePlain(executable) == PlainMode

\* mode of the file BuildExtras writes
ExtraMode(executable) == IF executable THEN ExecMode ELSE PlainMode

\* err = BuildExtras(md, wd, verbose): one extra per step; Build returns after the last
NB_Extras ==
    /\ pc = "nb_extras"
    /\ LET md == descriptor
           workdir == SrcDir(gopath, meta.Package)
       IN  IF idx > Len(md.BuildInfo.Extras)
           THEN /\ buildRet' = NoErr
                /\ pc' = "sc_publishtargets"
                /\ UNCHANGED <<fs, trace, err, deferred, idx>>
           ELSE LET extra == md.BuildInfo.Extras[idx]
                    templateName == workdir \o "/" \o extra.Template
                    outputFileName == workdir \o "/" \o extra.FileName
                    read(g) == [op |-> "ReadFile", by |-> "BuildExtras", ok |-> g,
                                index |-> idx, path |-> templateName]
                    render(g) == [op |-> "ParseTemplateForMetadata", by |-> "BuildExtras",
                                  ok |-> g, index |-> idx]
                    write(g) == [op |-> "WriteFile", by |-> "BuildExtras", ok |-> g,
                                 index |-> idx, path |-> outputFileName,
                                 mode |-> ExtraMode(extra.Executable)]
                IN  \E outcome \in {"ok", "read", "render", "write"} :
                     IF outcome = "ok"
                     THEN /\ trace' = trace \o <<read(TRUE), render(TRUE), write(TRUE)>>
                          /\ fs' = fs \cup {outputFileName}
                          /\ idx' = idx + 1
                          /\ pc' = "nb_extras"
                          /\ UNCHANGED <<err, deferred, buildRet>>
                     ELSE /\ trace' = trace \o
                                (IF outcome = "read" THEN <<read(FALSE)>>
                                 ELSE IF outcome = "render" THEN <<read(TRUE), render(FALSE)>>
                                 ELSE <<read(TRUE), render(TRUE), write(FALSE)>>)
                          /\ BuildFails(Wrap(
                                IF outcome = "read"
                                THEN Wrap("no such file", "failed to read template file " \o templateName)
                                ELSE IF outcome = "render"
                                THEN Wrap("bad template", "failed to inject metadata into template text")
                                ELSE Wrap("permission denied", "failed to write file " \o outputFileName),
                                "Failed to build extras"))
                          /\ UNCHANGED idx
    /\ UNCHANGED <<procWd, environ, descriptor, gpg, meta, args, cwd, actualWorkDir,
                   gopath, buildmetadata, config, ok>>

\* err = gomason.PublishBuildTargets(meta, gopath, cwd, true, false, true, verbose)
SC_PublishBuildTargets ==
    /\ pc = "sc_publishtargets"
    /\ \E good \in BOOLEAN :
        /\ trace' = Append(trace, Event("PublishBuildTargets", "signCmd", good))
        /\ IF good
           THEN /\ pc' = "sc_publishextras"
                /\ UNCHANGED <<err, fs, deferred>>
           ELSE Fatalf("signing failed: exit status 2")
    /\ UNCHANGED <<procWd, environ, descriptor, gpg, meta, args, cwd, actualWorkDir,
                   gopath, buildmetadata, buildRet, idx, config, ok>>

\* err = gomason.PublishBuildExtras(meta, gopath, cwd, true, false, verbose) ; Run returns
SC_PublishBuildExtras ==
    /\ pc = "sc_publishextras"
    /\ \E good \in BOOLEAN :
        /\ trace' = Append(trace, Event("PublishBuildExtras", "signCmd", good))
        /\ IF good
           THEN Return(NoErr)
           ELSE Fatalf("Extra artifact processing failed: exit status 2")
    /\ UNCHANGED <<procWd, environ, descriptor, gpg, meta, args, cwd, actualWorkDir,
                   gopath, buildmetadata, buildRet, idx, config, ok>>

NextSignCmd ==
    \/ SC_Getwd
    \/ SC_TempDir
    \/ SC_CreateGoPath
    \/ SC_ReadMetadata
    \/ SC_Checkout
    \/ SC_GoTest
    \/ NB_GoxInstall
    \/ NB_Checkout
    \/ NB_ReadMetadata
    \/ NB_Target
    \/ NB_Extras
    \/ SC_PublishBuildTargets
    \/ SC_PublishBuildExtras

SpecSignCmd == InitSignCmd /\ [][NextSignCmd]_vars


(***************************************************************************)
(* mason.SignBinary / mason.VerifyBinary (mason/signing.go)                *)
(***************************************************************************)
defaultSigningProgram == "gpg"

Identities == {"dev@acme.io", "op@corp.io"}
Binaries == {"/proj/widget_linux_amd64", "/proj/widget_darwin_amd64"}

StringEntry(k, v) == [key |-> k, type |-> "string", val |-> v]

OptionChoices ==
    {NoOptions,
     {StringEntry("keyring", TestKeyring), StringEntry("trustdb", TestTrustDb)},
     {StringEntry("keyring", TestKeyring)},
     {[key |-> "keyring", type |-> "float64", val |-> "1"], StringEntry("trustdb", TestTrustDb)}}

\* _, ok := m[k]
HasOption(opts, k) == \E e \in opts : e.key = k
\* m[k].(string) succeeds
IsString(opts, k) == \E e \in opts : e.key = k /\ e.type = "string"
StringOf(opts, k) == (CHOOSE e \in opts : e.key = k).val

SigningDescriptors ==
    {[Package |-> "acme/widget", Version |-> "1.2.3",
      BuildInfo |-> [Targets |-> <<>>, Extras |-> <<>>],
      SignInfo |-> [Program |-> p, Email |-> e],
      Options |-> o] :
        p \in {"", "gpg"}, e \in {""} \cup {"dev@acme.io"}, o \in OptionChoices}

\* what ~/.gomason can hold; an absent or unloadable file yields the empty config
UserConfigs ==
    {[User |-> [Email |-> e], Signing |-> [Program |-> p]] :
        e \in {"", "op@corp.io"}, p \in {"", "gpg2"}}

GpgWorlds ==
    {[installed |-> i, keys |-> k, sigs |-> {}] :
        i \in BOOLEAN, k \in [Stores -> {{}, {"dev@acme.io"}, Identities}]}

\* GetUserConfig on a file that is absent or cannot be loaded: the empty config
GetUserConfigFailed == NoConfig

InitSigning ==
    /\ pc = "sg_ready"
    /\ descriptor \in SigningDescriptors
    /\ meta = descriptor
    /\ gpg \in GpgWorlds
    /\ \E b \in Binaries, cfgErr \in BOOLEAN :
        /\ args = [entry |-> "SignBinary", binary |-> b, cfgErr |-> cfgErr]
        /\ config \in IF cfgErr THEN {GetUserConfigFailed} ELSE UserConfigs
    /\ fs = {CallerDir} \cup Binaries
    /\ procWd = CallerDir
    /\ environ = Environ
    /\ trace = <<>>
    /\ err = NoErr
    /\ deferred = <<>>
    /\ cwd = ""
    /\ actualWorkDir = ""
    /\ gopath = ""
    /\ buildmetadata = EmptyMetadata
    /\ buildRet = "unset"
    /\ idx = 0
    /\ ok = FALSE

\* signProg: the descriptor's program, "gpg" when empty, overridden by ~/.gomason
ResolveProgram(signInfo, cfg) ==
    IF cfg.Signing.Program # "" THEN cfg.Signing.Program
    ELSE IF signInfo.Program = "" THEN defaultSigningProgram
    ELSE signInfo.Program

\* the precedence the other way round: the descriptor's email wins when it is set
ResolveEntityDescriptorFirst(signInfo, cfg) ==
    IF signInfo.Email # "" THEN signInfo.Email ELSE cfg.User.Email

\* signEntity: the descriptor's email, overridden by the email of ~/.gomason
ResolveEntity(signInfo, cfg) ==
    IF cfg.User.Email # "" THEN cfg.User.Email ELSE signInfo.Email

\* the empty-identity check left out
CannotSignUnchecked(signEntity) == FALSE

\* if signEntity == "" { return the error }
CannotSign(signEntity) == signEntity = ""

\* the argument list SignGPG gives the signer
SignArgv(opts, signingEntity, binary) ==
    IF HasOption(opts, "keyring")
    THEN <<"--trustdb", StringOf(opts, "trustdb"), "--no-default-keyring",
           "--keyring", StringOf(opts, "keyring"), "-bau", signingEntity, binary>>
    ELSE <<"-bau", signingEntity, binary>>

\* the signature looked up under the binary-signature suffix instead of the armored one
SigFileBinarySuffix(binary) == binary \o ".sig"

\* sigFile := fmt.Sprintf("%s.asc", binary)
SigFile(binary) == binary \o ".asc"

\* a verifier that always looks in its default trust store
VerifyArgvDefaultStore(opts, sigFile) == <<"--verify", sigFile>>

\* the argument list VerifyGPG gives the verifier
VerifyArgv(opts, sigFile) ==
    IF HasOption(opts, "keyring")
    THEN <<"--trustdb", StringOf(opts, "trustdb"), "--no-default-keyring",
           "--keyring", StringOf(opts, "keyring"), "--verify", sigFile>>
    ELSE <<"--verify", sigFile>>

\* a type assertion of the keyring branch panics
AssertionPanics(opts) ==
    HasOption(opts, "keyring") /\ ~(IsString(opts, "trustdb") /\ IsString(opts, "keyring"))

(***************************************************************************)
(* The external signer, by its command line.                               *)
(***************************************************************************)
StoreOf(argv) ==
    IF \E i \in 1..Len(argv) - 1 : argv[i] = "--keyring"
    THEN argv[(CHOOSE i \in 1..Len(argv) - 1 : argv[i] = "--keyring") + 1]
    ELSE DefaultStore

KeysIn(world, store) == IF store \in DOMAIN world.keys THEN world.keys[store] ELSE {}

\* gpg -bau <entity> <file>: exit status 0 iff the file exists and the store has the key
GpgSignExit0(world, argv, files) ==
    /\ argv[Len(argv)] \in files
    /\ argv[Len(argv) - 1] \in KeysIn(world, StoreOf(argv))

\* the detached armored signature gpg -ba writes: <file>.asc
GpgSignature(argv) ==
    [path |-> argv[Len(argv)] \o ".asc", data |-> argv[Len(argv)], key |-> argv[Len(argv) - 1]]

\* gpg --verify <sigfile>: exit status 0 iff the signature file exists, was made over the
\* file it names and by a key of the store
GpgVerifyExit0(world, argv, files) ==
    \E sig \in world.sigs :
        /\ sig.path = argv[Len(argv)]
        /\ sig.path \in files
        /\ sig.data \in files
        /\ sig.key \in KeysIn(world, StoreOf(argv))

\* the wrapped error of GetUserConfig surviving to the return of a good signing
SignBinaryReturnsConfigErr(configErr, signErr) ==
    IF signErr = NoErr THEN configErr ELSE signErr

\* err = SignGPG(...) ; ... ; return err: the error GetUserConfig left in err is overwritten
SignBinaryReturns(configErr, signErr) == signErr

\* err = errors.Wrapf(err, "failed to get per-user config from ~/.gomason")
ConfigErr(cfgErr) ==
    IF cfgErr
    THEN Wrap("open ~/.gomason: no such file or directory",
              "failed to get per-user config from ~/.gomason")
    ELSE NoErr

\* SignBinary(meta, binary, verbose), with the SignGPG it calls
SignBinary ==
    /\ pc = "sg_ready"
    /\ LET signEntity == ResolveEntity(meta.SignInfo, config)
           signProg == ResolveProgram(meta.SignInfo, config)
           binary == args.binary
           cfgEvent == Event("GetUserConfig", "SignBinary", ~args.cfgErr)
           lookPath == Event("LookPath", "SignGPG", gpg.installed)
       IN  IF CannotSign(signEntity)
           THEN /\ trace' = Append(trace, cfgEvent)
                /\ err' = "Cannot sign without a signing entity (email)."
                /\ pc' = "sg_signed"
                /\ UNCHANGED <<fs, gpg>>
           ELSE IF ~gpg.installed
           THEN /\ trace' = trace \o <<cfgEvent, lookPath>>
                /\ err' = SignBinaryReturns(ConfigErr(args.cfgErr),
                            Wrap(Wrap("executable file not found in $PATH",
                                      "can't find signing program 'gpg' in path.  Is it installed?"),
                                 "failed to run \"" \o signProg \o "\""))
                /\ pc' = "sg_signed"
                /\ UNCHANGED <<fs, gpg>>
           ELSE IF AssertionPanics(meta.Options)
           THEN /\ trace' = trace \o <<cfgEvent, lookPath>>
                /\ err' = "interface conversion: interface {} is not string"
                /\ pc' = "panicked"
                /\ UNCHANGED <<fs, gpg>>
           ELSE LET argv == SignArgv(meta.Options, signEntity, binary)
                    exit0 == GpgSignExit0(gpg, argv, fs)
                IN  /\ trace' = trace \o <<cfgEvent, lookPath,
                            [op |-> "gpg", by |-> "SignGPG", ok |-> exit0, argv |-> argv,
                             env |-> environ]>>
                    /\ fs' = IF exit0 THEN fs \cup {GpgSignature(argv).path} ELSE fs
                    /\ gpg' = IF exit0
                              THEN [gpg EXCEPT !.sigs = @ \cup {GpgSignature(argv)}]
                              ELSE gpg
                    /\ err' = SignBinaryReturns(ConfigErr(args.cfgErr),
                                IF exit0 THEN NoErr
                                ELSE Wrap(Wrap("exit status 2", "failed to run \"/usr/bin/gpg\""),
                                          "failed to run \"" \o signProg \o "\""))
                    /\ pc' = "sg_signed"
    /\ UNCHANGED <<procWd, environ, descriptor, deferred, meta, args, cwd, actualWorkDir,
                   gopath, buildmetadata, buildRet, idx, config, ok>>

\* what VerifyGPG returns for the verifier's exit status: (ok, err)
VerifyResult(exit0) ==
    [ok |-> exit0, err |-> IF exit0 THEN NoErr ELSE "exit status 1"]

\* VerifyBinary(binary, meta), with the VerifyGPG it calls; the caller chooses the binary
\* and the options to verify with
VerifyBinary ==
    /\ pc \in {"sg_ready", "sg_signed"}
    /\ \E binary \in Binaries, opts \in OptionChoices :
        LET signProg == IF meta.SignInfo.Program = "" THEN defaultSigningProgram
                        ELSE meta.SignInfo.Program
            sigFile == SigFile(binary)
            lookPath == Event("LookPath", "VerifyGPG", gpg.installed)
            call == [op |-> "VerifyBinary", by |-> "caller", ok |-> TRUE,
                     binary |-> binary, options |-> opts]
        IN  IF ~gpg.installed
            THEN /\ trace' = trace \o <<call, lookPath>>
                 /\ ok' = FALSE
                 /\ err' = Wrap(Wrap("executable file not found in $PATH",
                                     "can't find signing program 'gpg' in path.  Is it installed?"),
                                "failed to run \"" \o signProg \o "\"")
                 /\ pc' = "sg_verified"
            ELSE IF AssertionPanics(opts)
            THEN /\ trace' = trace \o <<call, lookPath>>
                 /\ ok' = FALSE
                 /\ err' = "interface conversion: interface {} is not string"
                 /\ pc' = "panicked"
            ELSE LET argv == VerifyArgv(opts, sigFile)
                     exit0 == GpgVerifyExit0(gpg, argv, fs)
                     res == VerifyResult(exit0)
                 IN  /\ trace' = trace \o <<call, lookPath,
                            [op |-> "gpg", by |-> "VerifyGPG", ok |-> exit0, argv |-> argv,
                             env |-> environ]>>
                     /\ ok' = res.ok
                     /\ err' = Wrap(res.err, "failed to run \"" \o signProg \o "\"")
                     /\ pc' = "sg_verified"
    /\ UNCHANGED <<fs, procWd, environ, descriptor, gpg, deferred, meta, args, cwd,
                   actualWorkDir, gopath, buildmetadata, buildRet, idx, config>>

NextSigning ==
    \/ SignBinary
    \/ VerifyBinary

SpecSigning == InitSigning /\ [][NextSigning]_vars

(***************************************************************************)
(* The program: one of its entry points runs.                              *)
(***************************************************************************)
Init == InitShebang \/ InitSignCmd \/ InitSigning

Next == NextShebang \/ NextSignCmd \/ NextSigning

Spec == Init /\ [][Next]_vars


(***************************************************************************)
(* Properties.                                                             *)
(***************************************************************************)
Happened(op, by, good) ==
    \E i \in 1..Len(trace) : trace[i].op = op /\ trace[i].by = by /\ trace[i].ok = good

Finished == pc \in {"done", "exited", "panicked"}

\* the pipeline stage an operation carries out (0: none of the six)
StageRank(e) ==
    CASE e.op = "Checkout" -> 1
      [] e.op = "GovendorSync" -> 2
      [] e.op = "GoTest" -> 3
      [] e.op = "gox" -> 4
      [] e.op \in {"PublishBuildTargets", "log: Signing not yet implemented"} -> 5
      [] e.op \in {"PublishBuildExtras", "log: Publish not yet implemented"} -> 6
      [] OTHER -> 0

\* C1: in a run of WholeShebang or of the sign command the stages run in the order
\* checkout, dependency sync, test, build, sign, publish, each at most once (the
\* compiler invocations of one build stage count as that one stage); checkout is not
\* performed again once a later stage has run, Build included.
C1_StagesInOrderOnce ==
    args.entry \in {"WholeShebang", "signCmd"} =>
        \A i, j \in 1..Len(trace) :
            (i < j /\ StageRank(trace[i]) > 0 /\ StageRank(trace[j]) > 0) =>
                \/ StageRank(trace[i]) < StageRank(trace[j])
                \/ StageRank(trace[i]) = 4 /\ StageRank(trace[j]) = 4

\* C2: in WholeShebang a failed operation of any stage is the last one attempted, and the
\* run then returns a non-nil error; this includes an error returned by Build.
C2_FailureIsTerminal ==
    args.entry = "WholeShebang" =>
        /\ \A i, j \in 1..Len(trace) : i < j => trace[i].ok
        /\ (pc = "done" /\ (\E i \in 1..Len(trace) : ~trace[i].ok)) => err # NoErr
        /\ (pc = "done" /\ buildRet \notin {"unset", NoErr}) => err # NoErr

\* the part of C2 about Build alone: once Build has returned an error, WholeShebang
\* attempts nothing more and returns a non-nil error
C2_BuildFailureIsTerminal ==
    (args.entry = "WholeShebang" /\ buildRet \notin {"unset", NoErr}) =>
        /\ ~Happened("Stat", "WholeShebang", FALSE)
        /\ ~Happened("Rename", "WholeShebang", TRUE)
        /\ ~Happened("Rename", "WholeShebang", FALSE)
        /\ pc = "done" => err # NoErr

UnderTempDir == {q \in fs : q = TempDirName \/ HasPrefix(q, TempDirName \o "/")}

\* C6: WholeShebang with workDir "" leaves nothing of the temporary directory behind when
\* it ends, whatever the path it ends by; with a workDir given, that directory exists
\* throughout and after the run.
C6_WorkspaceCleanup ==
    args.entry = "WholeShebang" =>
        /\ (args.workDir = "" /\ Finished) => UnderTempDir = {}
        /\ args.workDir # "" => args.workDir \in fs

\* a run that created the temporary directory, filled it, failed later and returned
C6_Witness ==
    /\ args.entry = "WholeShebang"
    /\ args.workDir = ""
    /\ Happened("TempDir", "WholeShebang", TRUE)
    /\ Happened("Checkout", "WholeShebang", TRUE)
    /\ Happened("GoTest", "WholeShebang", FALSE)
    /\ pc = "done"
    /\ UnderTempDir = {}

\* C7: when the sign command ends, by returning or by log.Fatalf, its temporary directory
\* is gone.
C7_SignCmdCleanup ==
    (args.entry = "signCmd" /\ Finished) => UnderTempDir = {}

MetadataFields == {"WorkDir", "Path", "Package", "Version", "GitPath"}

\* the record WholeShebang hands back has what the completed stages put into it
C8_PartialResult ==
    (args.entry = "WholeShebang" /\ pc = "done") =>
        /\ ~Happened("Getwd", "WholeShebang", TRUE) => buildmetadata = EmptyMetadata
        /\ (/\ Happened("Getwd", "WholeShebang", TRUE)
            /\ args.workDir # "" \/ Happened("TempDir", "WholeShebang", TRUE)) =>
                /\ buildmetadata.WorkDir # ""
                /\ buildmetadata.WorkDir = actualWorkDir
        /\ Happened("CreateGoPath", "WholeShebang", TRUE) =>
                /\ buildmetadata.Path # ""
                /\ buildmetadata.Path = GoPathOf(buildmetadata.WorkDir)
        /\ Happened("ReadMetadata", "WholeShebang", TRUE) =>
                /\ buildmetadata.Package = descriptor.Package
                /\ buildmetadata.Version = descriptor.Version
                /\ buildmetadata.GitPath = "git@" \o descriptor.Package \o ".git"
        /\ (err # NoErr /\ Happened("CreateGoPath", "WholeShebang", TRUE)) =>
                buildmetadata # EmptyMetadata

\* a field of the result record, once set, keeps its value
C8_FieldsKept ==
    \A f \in MetadataFields : buildmetadata[f] # "" => buildmetadata'[f] = buildmetadata[f]

\* C8: the result record of WholeShebang only grows (a field once set is never cleared
\* or changed), and at every return it holds the fields of the stages that completed:
\* WorkDir and Path once the workspace exists, Package, Version and GitPath from the
\* descriptor once the metadata was read; a run that failed partway is not empty.
C8_ResultEnrichedMonotonically == [](C8_PartialResult) /\ [][C8_FieldsKept]_vars

\* a run that read the metadata, failed at checkout and returned the partial record
C8_Witness ==
    /\ args.entry = "WholeShebang"
    /\ pc = "done"
    /\ err # NoErr
    /\ Happened("Checkout", "WholeShebang", FALSE)
    /\ buildmetadata.WorkDir = TempDirName
    /\ buildmetadata.Package = "acme/widget"
    /\ buildmetadata.Version = "1.2.3"


\* the compiler invocations gomason.Build has made, in order
Invocations == SelectSeq(trace, LAMBDA e : e.op = "gox" /\ e.by = "Build")

\* C3: gomason.Build runs the compiler once per target in descriptor order: the k-th
\* invocation is for the k-th target, there are at most N of them, only the last one
\* made can have failed, and when one fails Build returns exactly its error at once;
\* when the loop is over without a failure every target was compiled.
C3_BuildMatrixFailFast ==
    args.entry = "signCmd" =>
        LET targets == descriptor.BuildInfo.Targets
            inv == Invocations
        IN  /\ Len(inv) <= Len(targets)
            /\ \A k \in 1..Len(inv) :
                    /\ inv[k].index = k
                    /\ inv[k].osarch = targets[k].Name
                    /\ k < Len(inv) => inv[k].ok
            /\ (\E k \in 1..Len(inv) : ~inv[k].ok) =>
                    /\ pc = "exited"
                    /\ buildRet = "exit status 1"
                    /\ ~trace[Len(trace)].ok /\ trace[Len(trace)].op = "gox"
            /\ pc \in {"nb_extras", "sc_publishtargets", "sc_publishextras", "done"} =>
                    Len(inv) = Len(targets)

\* two targets, the first compiled, the second failed: Build stopped there
C3_Witness ==
    /\ args.entry = "signCmd"
    /\ Len(descriptor.BuildInfo.Targets) = 2
    /\ descriptor.BuildInfo.Targets[1] # descriptor.BuildInfo.Targets[2]
    /\ Len(Invocations) = 2
    /\ Invocations[1].ok
    /\ ~Invocations[2].ok
    /\ pc = "exited"

\* the signer invocations SignGPG has made
SignCalls == SelectSeq(trace, LAMBDA e : e.op = "gpg" /\ e.by = "SignGPG")
SignBinaryRan == Happened("GetUserConfig", "SignBinary", TRUE)
                    \/ Happened("GetUserConfig", "SignBinary", FALSE)

\* C4: SignBinary signs with the email of ~/.gomason when that is non-empty, else with
\* the descriptor's email when that is non-empty, else it fails; the descriptor's signing
\* section is left as it was.
C4_IdentityPrecedence ==
    (args.entry = "SignBinary" /\ SignBinaryRan) =>
        LET user == config.User.Email
            desc == descriptor.SignInfo.Email
        IN  /\ \A k \in 1..Len(SignCalls) :
                LET argv == SignCalls[k].argv
                IN  /\ argv[Len(argv) - 2] = "-bau"
                    /\ user # "" => argv[Len(argv) - 1] = user
                    /\ (user = "" /\ desc # "") => argv[Len(argv) - 1] = desc
                    /\ ~(user = "" /\ desc = "")
            /\ (user = "" /\ desc = "" /\ pc = "sg_signed") => err # NoErr
            /\ meta.SignInfo = descriptor.SignInfo

\* both emails set and different: the signer was given the one of ~/.gomason
C4_Witness ==
    /\ args.entry = "SignBinary"
    /\ config.User.Email = "op@corp.io"
    /\ descriptor.SignInfo.Email = "dev@acme.io"
    /\ Len(SignCalls) = 1
    /\ SignCalls[1].ok
    /\ SignCalls[1].argv[Len(SignCalls[1].argv) - 1] = "op@corp.io"

\* C5: with no email in the descriptor and none in the user config, SignBinary returns an
\* error and SignGPG is never entered: no lookup of the signer, no signer process.
C5_NoIdentityNoSigner ==
    (/\ args.entry = "SignBinary"
     /\ SignBinaryRan
     /\ descriptor.SignInfo.Email = ""
     /\ config.User.Email = "") =>
        /\ \A i \in 1..Len(trace) : trace[i].by # "SignGPG"
        /\ pc = "sg_signed" => err # NoErr
        /\ gpg.sigs = {}

\* no email anywhere, the signer installed and holding keys: SignBinary returned the error
C5_Witness ==
    /\ args.entry = "SignBinary"
    /\ descriptor.SignInfo.Email = ""
    /\ config.User.Email = ""
    /\ gpg.installed
    /\ gpg.keys[DefaultStore] = Identities
    /\ pc = "sg_signed"
    /\ err = "Cannot sign without a signing entity (email)."

\* the verifier run of the VerifyBinary call, when it got that far
VerifyCalls == SelectSeq(trace, LAMBDA e : e.op = "gpg" /\ e.by = "VerifyGPG")

\* C9: VerifyBinary returns ok=true only if the verifier exited with status zero, and a
\* non-zero exit is reported as ok=false with no error.
C9_VerifyFailureIsNotAnError ==
    (args.entry = "SignBinary" /\ pc = "sg_verified" /\ Len(VerifyCalls) = 1) =>
        /\ ok => VerifyCalls[1].ok
        /\ ~VerifyCalls[1].ok => (ok = FALSE /\ err = NoErr)

\* the VerifyBinary call made, if any
VerifyRequests == SelectSeq(trace, LAMBDA e : e.op = "VerifyBinary")

\* C10: after a successful SignGPG(B, E, meta), VerifyBinary(B, meta) with the same
\* options looks up exactly the file the signer wrote, B.asc, and returns ok=true without
\* an error.
C10_SignVerifyRoundTrip ==
    (/\ args.entry = "SignBinary"
     /\ Len(SignCalls) = 1 /\ SignCalls[1].ok
     /\ Len(VerifyRequests) = 1
     /\ VerifyRequests[1].binary = args.binary
     /\ VerifyRequests[1].options = meta.Options) =>
        /\ pc = "sg_verified"
        /\ Len(VerifyCalls) = 1
        /\ LET argv == VerifyCalls[1].argv
           IN  /\ argv[Len(argv)] = args.binary \o ".asc"
               /\ argv[Len(argv)] \in fs
               /\ \E sig \in gpg.sigs : sig.path = argv[Len(argv)] /\ sig.data = args.binary
        /\ ok = TRUE
        /\ err = NoErr

\* signed with the test keyring and verified with it
C10_Witness ==
    /\ args.entry = "SignBinary"
    /\ HasOption(meta.Options, "keyring")
    /\ Len(SignCalls) = 1 /\ SignCalls[1].ok
    /\ Len(VerifyRequests) = 1
    /\ VerifyRequests[1].binary = args.binary
    /\ VerifyRequests[1].options = meta.Options
    /\ pc = "sg_verified"
    /\ ok = TRUE


\* operations of the build stage of WholeShebang: Build's own and the binary collection
BuildStageOps == {"GoxInstall", "gox", "Stat", "Rename"}
IsBuildStage(e) == e.by = "Build" \/ e.op \in BuildStageOps

\* C11: in WholeShebang the build stage (Build's calls, the compiler run, the binary
\* collection) is attempted only when build is set, the sign stage only when sign is set,
\* the publish stage only when publish is set, no flag standing in for another; and
\* whenever the build stage is attempted, checkout, dependency sync and test have run.
C11_StagesFollowTheirFlags ==
    args.entry = "WholeShebang" =>
        /\ \A i \in 1..Len(trace) :
            /\ IsBuildStage(trace[i]) =>
                /\ args.build
                /\ \E a, b, c \in 1..(i - 1) :
                    /\ a < b /\ b < c
                    /\ trace[a] = Event("Checkout", "WholeShebang", TRUE)
                    /\ trace[b] = Event("GovendorSync", "WholeShebang", TRUE)
                    /\ trace[c] = Event("GoTest", "WholeShebang", TRUE)
            /\ trace[i].op = "log: Signing not yet implemented" => args.sign
            /\ trace[i].op = "log: Publish not yet implemented" => args.publish
        /\ (pc = "done" /\ err = NoErr) =>
            /\ args.build <=> \E i \in 1..Len(trace) : IsBuildStage(trace[i])
            /\ args.sign <=> \E i \in 1..Len(trace) : trace[i].op = "log: Signing not yet implemented"
            /\ args.publish <=> \E i \in 1..Len(trace) : trace[i].op = "log: Publish not yet implemented"

\* a run with sign set and build and publish not set: only the sign stage was entered
C11_Witness ==
    /\ args.entry = "WholeShebang"
    /\ args.sign /\ ~args.build /\ ~args.publish
    /\ pc = "done"
    /\ err = NoErr
    /\ Happened("GoTest", "WholeShebang", TRUE)
    /\ Happened("log: Signing not yet implemented", "WholeShebang", TRUE)
    /\ ~\E i \in 1..Len(trace) : IsBuildStage(trace[i])

\* the binary gox is expected to leave in the workspace for target k
ExpectedBinary(k) ==
    BinaryPath(SrcDir(gopath, meta.Package), meta.Package, meta.BuildTargets[k])

CompilerSucceeded ==
    \E i \in 1..Len(trace) : trace[i].op = "gox" /\ trace[i].by = "Build" /\ trace[i].ok

\* C12: with build enabled, when an expected binary is absent from the workspace
\* WholeShebang returns at once an error that names that binary (not the compiler's
\* error); every existence check comes after the compiler run, and the run reports
\* success only after the existence check of every expected binary has passed.
C12_MissingBinaryIsAnError ==
    args.entry = "WholeShebang" =>
        /\ \A i \in 1..Len(trace) :
            /\ (trace[i].op = "Stat" /\ ~trace[i].ok) =>
                /\ i = Len(trace)
                /\ pc = "done"
                /\ trace[i].path = ExpectedBinary(trace[i].index)
                /\ err = "Gox failed to build binary: " \o trace[i].path \o "\n"
                /\ err # "exit status 1"
                /\ buildRet # NoErr => err # buildRet
            /\ trace[i].op = "Stat" =>
                /\ args.build
                /\ \A j \in 1..Len(trace) : trace[j].op = "gox" => j < i
        /\ (pc = "done" /\ err = NoErr /\ args.build) =>
            \A k \in 1..Len(meta.BuildTargets) :
                \E i \in 1..Len(trace) :
                    /\ trace[i].op = "Stat"
                    /\ trace[i].ok
                    /\ trace[i].index = k
                    /\ trace[i].path = ExpectedBinary(k)

\* the compiler reported success, the second of two binaries is absent, the run has
\* returned
C12_Witness ==
    /\ args.entry = "WholeShebang"
    /\ CompilerSucceeded
    /\ pc = "done"
    /\ Len(meta.BuildTargets) = 2
    /\ Len(trace) > 0
    /\ trace[Len(trace)].op = "Stat"
    /\ ~trace[Len(trace)].ok
    /\ trace[Len(trace)].index = 2
    /\ err = MissingBinaryError(ExpectedBinary(2))

\* <last path segment of "acme/widget">_<os>_<arch>, written out
CollectedName(arch) ==
    CASE arch = "linux/amd64" -> "widget_linux_amd64"
      [] arch = "darwin/amd64" -> "widget_darwin_amd64"
      [] OTHER -> "widget"

InCallerDir == {f \in fs : HasPrefix(f, CallerDir \o "/")}

Succeeded == pc = "done" /\ err = NoErr

\* C13: after a successful WholeShebang with build enabled and N targets, the directory
\* that was the working directory when the run started holds exactly the N binaries
\* <last segment of the package>_<os>_<arch>, wherever the working directory moved
\* since, and none of them is left in the workspace; the result carries the
\* descriptor's package and version.
C13_BinariesCollectedIntoCallerDir ==
    (args.entry = "WholeShebang" /\ Succeeded /\ args.build) =>
        LET N == Len(meta.BuildTargets)
        IN  /\ cwd = CallerDir
            /\ InCallerDir = {CallerDir \o "/" \o CollectedName(meta.BuildTargets[k]) : k \in 1..N}
            /\ Cardinality(InCallerDir) = N
            /\ \A k \in 1..N : ExpectedBinary(k) \notin fs
            /\ buildmetadata.Package = descriptor.Package
            /\ buildmetadata.Version = descriptor.Version

\* package acme/widget 1.2.3 with the single target linux/amd64, the working directory
\* moved away from the caller's: exactly widget_linux_amd64 was collected
C13_Witness ==
    /\ args.entry = "WholeShebang"
    /\ Succeeded
    /\ args.build
    /\ CompilerSucceeded
    /\ meta.BuildTargets = <<"linux/amd64">>
    /\ procWd # CallerDir
    /\ InCallerDir = {"/proj/widget_linux_amd64"}
    /\ buildmetadata.Package = "acme/widget"
    /\ buildmetadata.Version = "1.2.3"

CollectionFailedAt(i) ==
    /\ trace[i].by = "WholeShebang"
    /\ trace[i].op \in {"Stat", "Rename"}
    /\ ~trace[i].ok

\* C14: when the binary of target i is missing or cannot be moved, the collection stops
\* there: no binary of a later target is checked or moved, the run returns an error, and
\* the binaries of the targets before i stay in the caller's directory.
C14_CollectionStopsWithoutRollback ==
    args.entry = "WholeShebang" =>
        \A i \in 1..Len(trace) :
            CollectionFailedAt(i) =>
                /\ i = Len(trace)
                /\ pc = "done"
                /\ err # NoErr
                /\ \A j \in 1..Len(trace) :
                    trace[j].op \in {"Stat", "Rename"} => trace[j].index <= trace[i].index
                /\ InCallerDir =
                    {CallerDir \o "/" \o CollectedName(meta.BuildTargets[k]) :
                        k \in 1..(trace[i].index - 1)}
                /\ \A k \in 1..(trace[i].index - 1) :
                    \E j \in 1..Len(trace) :
                        trace[j].op = "Rename" /\ trace[j].ok /\ trace[j].index = k

\* the first of two binaries was moved, the move of the second failed: the first is
\* still in the caller's directory and the second was not moved
C14_Witness ==
    /\ args.entry = "WholeShebang"
    /\ pc = "done"
    /\ meta.BuildTargets = <<"linux/amd64", "darwin/amd64">>
    /\ Len(trace) > 0
    /\ trace[Len(trace)].op = "Rename"
    /\ ~trace[Len(trace)].ok
    /\ trace[Len(trace)].index = 2
    /\ InCallerDir = {"/proj/widget_linux_amd64"}
    /\ err # NoErr

\* the legacy sign command: mason.WholeShebang(workdir, branch, true, true, false, verbose)
LegacySignCmd ==
    /\ args.entry = "WholeShebang"
    /\ args.build
    /\ args.sign
    /\ ~args.publish

\* an operation that signs a binary: PublishBuildTargets called with sign set, or the signer
IsSigning(e) == e.op = "PublishBuildTargets" \/ e.by \in {"SignBinary", "SignGPG"}

\* C15: a run of the sign command (either of the two) signs only after the test and the
\* build both succeeded, in that order, and a run that ends without error has performed
\* the signing step.
C15_SignCmdTestsBuildsSigns ==
    (args.entry = "signCmd" \/ LegacySignCmd) =>
        /\ \A i \in 1..Len(trace) :
            IsSigning(trace[i]) =>
                /\ buildRet = NoErr
                /\ \E a, b \in 1..(i - 1) :
                    /\ a < b
                    /\ trace[a].op = "GoTest" /\ trace[a].ok
                    /\ trace[b].by \in {"Build", "BuildExtras"} /\ trace[b].ok
        /\ Succeeded => \E i \in 1..Len(trace) : IsSigning(trace[i]) /\ trace[i].ok

\* the program named by the descriptor, the default one when it names none
DescriptorProgram ==
    IF descriptor.SignInfo.Program = "" THEN "gpg" ELSE descriptor.SignInfo.Program

\* C16: when GetUserConfig fails or yields an empty config, SignBinary goes on with the
\* descriptor's email and program; what it returns is decided by the descriptor and the
\* signer alone, the same whether the config failed to load or loaded empty, and it is
\* never the configuration error.
C16_ConfigFailureDoesNotFailSigning ==
    (/\ args.entry = "SignBinary"
     /\ SignBinaryRan
     /\ (args.cfgErr \/ config = NoConfig)) =>
        LET email == descriptor.SignInfo.Email
            failed == "failed to run \"" \o DescriptorProgram \o "\""
        IN  /\ email = "" => \A i \in 1..Len(trace) : trace[i].by # "SignGPG"
            /\ email # "" =>
                /\ Happened("LookPath", "SignGPG", gpg.installed)
                /\ \A k \in 1..Len(SignCalls) :
                    SignCalls[k].argv[Len(SignCalls[k].argv) - 1] = email
            /\ pc = "sg_signed" =>
                /\ email = "" => err = "Cannot sign without a signing entity (email)."
                /\ (email # "" /\ Len(SignCalls) = 1 /\ SignCalls[1].ok) => err = NoErr
                /\ (email # "" /\ ~(Len(SignCalls) = 1 /\ SignCalls[1].ok)) =>
                    HasPrefix(err, failed)

\* the config failed to load, the descriptor names an email, the signer has its key: the
\* binary was signed with the descriptor's email and SignBinary returned nil
C16_Witness ==
    /\ args.entry = "SignBinary"
    /\ args.cfgErr
    /\ Happened("GetUserConfig", "SignBinary", FALSE)
    /\ descriptor.SignInfo.Email = "dev@acme.io"
    /\ Len(SignCalls) = 1
    /\ SignCalls[1].ok
    /\ SignCalls[1].argv[Len(SignCalls[1].argv) - 1] = "dev@acme.io"
    /\ pc = "sg_signed"
    /\ err = NoErr

\* the directory Build hands to BuildExtras is <gopath>/src/<package of the descriptor
\* the command loaded>
ExtrasEvents == {i \in 1..Len(trace) : trace[i].by = "BuildExtras"}

\* C17: BuildExtras writes the rendered output of an extra with mode 0755 when the extra
\* is marked executable and 0644 otherwise; when reading, rendering or writing extra i
\* fails, BuildExtras stops with an error: nothing of an extra after i is read or written.
C17_ExtrasModeAndAbort ==
    args.entry = "signCmd" =>
        \A i \in ExtrasEvents :
            LET extra == descriptor.BuildInfo.Extras[trace[i].index]
            IN  /\ trace[i].op = "WriteFile" =>
                    /\ trace[i].path = SrcDir(gopath, meta.Package) \o "/" \o extra.FileName
                    /\ extra.Executable => trace[i].mode = ExecMode
                    /\ ~extra.Executable => trace[i].mode = PlainMode
                /\ ~trace[i].ok =>
                    /\ i = Len(trace)
                    /\ pc = "exited"
                    /\ HasPrefix(buildRet, "Failed to build extras")
                    /\ \A j \in ExtrasEvents : trace[j].index <= trace[i].index
                    /\ \A k \in (trace[i].index + 1)..Len(descriptor.BuildInfo.Extras) :
                        \/ SrcDir(gopath, meta.Package) \o "/"
                               \o descriptor.BuildInfo.Extras[k].FileName \notin fs
                        \/ \E m \in 1..(trace[i].index - 1) :
                               descriptor.BuildInfo.Extras[m].FileName
                                   = descriptor.BuildInfo.Extras[k].FileName

\* the executable install.sh was written with 0755, then the template of README could
\* not be read: Build failed and README was not written
C17_Witness ==
    /\ args.entry = "signCmd"
    /\ Len(descriptor.BuildInfo.Extras) = 2
    /\ descriptor.BuildInfo.Extras[1].Executable
    /\ ~descriptor.BuildInfo.Extras[2].Executable
    /\ \E i \in ExtrasEvents :
        /\ trace[i].op = "WriteFile" /\ trace[i].ok
        /\ trace[i].index = 1 /\ trace[i].mode = ExecMode
    /\ trace[Len(trace)].op = "ReadFile"
    /\ trace[Len(trace)].index = 2
    /\ ~trace[Len(trace)].ok
    /\ SrcDir(gopath, meta.Package) \o "/README" \notin fs

FlagVar(f) == f.k \o "=" \o f.v

\* C18: the environment of each compiler invocation of Build is the inherited
\* environment plus GOPATH plus the flags of that invocation's own target: a flag of
\* another target is not in it; the command line carries -cgo exactly when the target's
\* cgo flag is set; the environment of the process itself is never changed.
C18_PerTargetEnvironment ==
    args.entry = "signCmd" =>
        /\ environ = Environ
        /\ \A n \in 1..Len(Invocations) :
            LET inv == Invocations[n]
                targets == descriptor.BuildInfo.Targets
                target == targets[inv.index]
            IN  /\ inv.env = Environ \cup {"GOPATH=" \o gopath}
                                \cup {FlagVar(f) : f \in target.Flags}
                /\ \A j \in 1..Len(targets) :
                    \A f \in targets[j].Flags :
                        f \notin target.Flags => FlagVar(f) \notin inv.env
                /\ target.Cgo =>
                    inv.args = gopath \o "/bin/gox -cgo -osarch=\"" \o target.Name \o "\" ./..."
                /\ ~target.Cgo =>
                    inv.args = gopath \o "/bin/gox -osarch=\"" \o target.Name \o "\" ./..."

\* darwin/amd64 (cgo, CC=clang) then windows/386 (FOO=1) were both compiled: the second
\* invocation has FOO=1 and neither CC=clang nor -cgo
C18_Witness ==
    /\ args.entry = "signCmd"
    /\ Len(Invocations) = 2
    /\ Invocations[1].osarch = "darwin/amd64"
    /\ Invocations[2].osarch = "windows/386"
    /\ "CC=clang" \in Invocations[1].env
    /\ "FOO=1" \notin Invocations[1].env
    /\ Invocations[1].args = "/tmp/gomason1/go/bin/gox -cgo -osarch=\"darwin/amd64\" ./..."
    /\ "FOO=1" \in Invocations[2].env
    /\ "CC=clang" \notin Invocations[2].env
    /\ Invocations[2].args = "/tmp/gomason1/go/bin/gox -osarch=\"windows/386\" ./..."
    /\ environ = {"PATH=/usr/bin", "HOME=/home/op"}

\* Build went through its whole loop: one successful compiler invocation per target
TargetsAllSucceeded ==
    /\ Happened("ReadMetadata", "Build", TRUE)
    /\ Len(Invocations) = Len(descriptor.BuildInfo.Targets)
    /\ \A n \in 1..Len(Invocations) : Invocations[n].ok

BuildReturned == pc \notin {"nb_target", "nb_extras"}

\* how many times the extra at position k of the descriptor was rendered and written
Rendered(k) ==
    Cardinality({i \in ExtrasEvents :
                    trace[i].op = "WriteFile" /\ trace[i].ok /\ trace[i].index = k})

\* extras are touched only after the compiler succeeded for every target
ExtrasOnlyAfterTargets ==
    /\ \A i \in ExtrasEvents :
        /\ TargetsAllSucceeded
        /\ \A j \in 1..Len(trace) : trace[j].op = "gox" => j < i
    /\ (\E n \in 1..Len(Invocations) : ~Invocations[n].ok) => ExtrasEvents = {}

\* how many times operation op of BuildExtras was attempted on the extra at position k
Attempts(op, k) ==
    Cardinality({i \in ExtrasEvents : trace[i].op = op /\ trace[i].index = k})

\* BuildExtras has gone past the extra at position k
PastExtra(k) ==
    \/ \E i \in ExtrasEvents : trace[i].index > k
    \/ BuildReturned /\ buildRet = NoErr

\* C19: in Build the extras are rendered only after every target's compiler invocation
\* succeeded, and none is read or written if a target fails; when all targets succeed
\* and Build returns nil, each ExtraArtifact has been read, rendered and written exactly
\* once; no extra is ever rendered twice, and every extra BuildExtras has gone past was
\* rendered exactly once, also in a run that a later extra makes fail.
C19_ExtrasAfterAllTargets ==
    args.entry = "signCmd" =>
        /\ ExtrasOnlyAfterTargets
        /\ \A k \in 1..Len(descriptor.BuildInfo.Extras) :
            /\ Attempts("ReadFile", k) <= 1
            /\ Attempts("ParseTemplateForMetadata", k) <= 1
            /\ Attempts("WriteFile", k) <= 1
            /\ PastExtra(k) =>
                /\ Attempts("ReadFile", k) = 1
                /\ Attempts("ParseTemplateForMetadata", k) = 1
                /\ Attempts("WriteFile", k) = 1
                /\ Rendered(k) = 1
        /\ (BuildReturned /\ buildRet = NoErr) =>
            /\ TargetsAllSucceeded
            /\ \A i \in ExtrasEvents : trace[i].ok

\* two targets compiled, then two extras rendered, one time each, and Build returned nil
C19_Witness ==
    /\ args.entry = "signCmd"
    /\ Len(descriptor.BuildInfo.Targets) = 2
    /\ Len(descriptor.BuildInfo.Extras) = 2
    /\ TargetsAllSucceeded
    /\ BuildReturned
    /\ buildRet = NoErr
    /\ Rendered(1) = 1
    /\ Rendered(2) = 1

\* the <<trust database, keyring>> a command line names explicitly, <<>> when it names none
ExplicitStore(argv) ==
    IF /\ Len(argv) >= 5
       /\ argv[1] = "--trustdb"
       /\ argv[3] = "--no-default-keyring"
       /\ argv[4] = "--keyring"
    THEN <<argv[2], argv[5]>>
    ELSE <<>>

NamesNoStore(argv) ==
    \A n \in 1..Len(argv) : argv[n] \notin {"--trustdb", "--keyring", "--no-default-keyring"}

\* C20: SignGPG and VerifyGPG treat the options alike: each passes the trust database and
\* the keyring of the options to gpg exactly when the options contain "keyring", and names
\* no store otherwise; signing and verifying under the same options name the same store.
C20_KeyringOverrideSymmetric ==
    args.entry = "SignBinary" =>
        /\ \A n \in 1..Len(SignCalls) :
            LET argv == SignCalls[n].argv
            IN  IF HasOption(meta.Options, "keyring")
                THEN ExplicitStore(argv) = <<StringOf(meta.Options, "trustdb"),
                                             StringOf(meta.Options, "keyring")>>
                ELSE NamesNoStore(argv)
        /\ \A n \in 1..Len(VerifyCalls) :
            LET argv == VerifyCalls[n].argv
                opts == VerifyRequests[n].options
            IN  /\ IF HasOption(opts, "keyring")
                   THEN ExplicitStore(argv) = <<StringOf(opts, "trustdb"),
                                                StringOf(opts, "keyring")>>
                   ELSE NamesNoStore(argv)
                /\ \A m \in 1..Len(SignCalls) :
                    opts = meta.Options =>
                        ExplicitStore(argv) = ExplicitStore(SignCalls[m].argv)

\* signed and verified under options that name the test keyring: both command lines
\* name the test trust database and the test keyring
C20_Witness ==
    /\ args.entry = "SignBinary"
    /\ Len(SignCalls) = 1
    /\ Len(VerifyCalls) = 1
    /\ VerifyRequests[1].options = meta.Options
    /\ ExplicitStore(SignCalls[1].argv) = <<TestTrustDb, TestKeyring>>
    /\ ExplicitStore(VerifyCalls[1].argv) = <<TestTrustDb, TestKeyring>>

\* C21: whatever the options of the descriptor hold, a keyring entry without a trustdb
\* entry or entries that are not strings included, SignGPG and VerifyGPG return a result
\* or an error: they never panic.
C21_SignVerifyNeverCrash ==
    args.entry = "SignBinary" => pc # "panicked"

TempDirFailedAt(i) ==
    trace[i].op = "TempDir" /\ trace[i].by = "WholeShebang" /\ ~trace[i].ok

\* C22: when WholeShebang is called with an empty workDir and the temporary directory
\* cannot be allocated, the run returns that error and nothing is attempted after it:
\* no stage runs with an empty workspace path.
C22_TempDirFailureEndsRun ==
    (args.entry = "WholeShebang" /\ args.workDir = "") =>
        /\ \A i \in 1..Len(trace) :
            TempDirFailedAt(i) =>
                /\ i = Len(trace)
                /\ pc = "done"
                /\ err = Wrap("mkdir failed", "Failed to create temp dir")
        /\ \A i \in 1..Len(trace) :
            trace[i].op \in {"CreateGoPath", "GovendorInstall", "Checkout", "GoTest", "gox"} =>
                actualWorkDir # ""

====
